---- MODULE Spec2Model ----
(***************************************************************************)
(* A model of the templ-go/x component cache: the lru store               *)
(* (container/list + map, per-entry expiration, byte-accounted capacity)  *)
(* and the Component methods that drive it (Remove, Disable, Reset,       *)
(* Stats, and the get/put pair that Render performs).                     *)
(*                                                                         *)
(* Every lru method takes c.lock for its whole body, so each is one       *)
(* atomic action.  Component.Disable(true) is two steps, because it calls *)
(* lru.reset (locked) and then writes lru.disabled without the lock;      *)
(* Component.Stats reads the fields without the lock.                     *)
(***************************************************************************)
EXTENDS Integers, Sequences, FiniteSets, TLC

(* ---------------------------------------------------------------- bounds *)

\* The clock runs over 0..MaxTime.
MaxTime == 2

\* lru.get stops being called once reads has reached MaxReads.
MaxReads == 2

\* 24 * time.Hour, the horizon newLRU and _evictExpired add to the clock,
\* in the time unit of the model.  It is longer than the shortest ttl, so
\* that a put can lower the watermark.
Day == 2

\* The Renders each goroutine of Workers makes.
RendersEach == 2

\* defaultTTL (5 minutes), in the time unit of the model: shorter than Day.
DefaultTTL == 1

\* defaultMem
DefaultMem == 64 * 1024 * 1024

\* math.MaxInt, at the width of the integers of the model
MaxInt == 2147483647

\* The 24 bytes entry.size adds for the expiration time.Time.
Overhead == 24

\* The goroutines whose position is followed: those that call
\* Component.Disable.  Any number of others call get, put, Remove, Reset
\* and Stats, each of which is one step.
Procs == {"ctl"}

\* Keys, rendered bodies and ttls the callers use.
Keys == {"A", "B", "CC"}

Values == {"x", "yyyyyyyyyyyyyyyyyyyyyyyyyyyyyyy"}

TTLs == {1, 2}

\* The ttls of a cache that keeps some entries longer than 24 hours.
LongTTLs == {1, 3}

\* The maxMem the cache is created with (WithMaxMemory).
Capacities == {55}

\* The goroutines that render cache components concurrently.
Workers == {1, 2}

\* Options: WithTTL(d) and WithMaxMemory(maxBytes).
OptTTL(d) == [opt |-> "WithTTL", arg |-> d]
OptMem(maxBytes) == [opt |-> "WithMaxMemory", arg |-> maxBytes]

\* The options New is called with.
BuilderOpts == {<<OptMem(55)>>}

\* The options a component is built with: cache(key, opts...).
CompOpts == {<< >>, <<OptTTL(2)>>, <<OptMem(0)>>}

\* The keys of the components the goroutines of Workers render.
RenderKeys == {"A", "B"}

\* The goroutines that call the operations of one Component concurrently,
\* each lru method taking c.lock.
Callers == {1, 2}

\* c.lock held by no goroutine
Free == 0

\* The nil []byte that get returns on a miss.
Nil == ""

NoKey == ""

(* ------------------------------------------------------------ variables *)

VARIABLES
    lru,      \* the lru struct: maxMem, mem, cache, list, earliestExpiration,
              \* disabled, reads, hits
    now,      \* the value time.Now() returns
    pc,       \* per goroutine of Procs: "idle", or "disable_set" between
              \* the two statements of Component.Disable(true)
    last,     \* history: the last step of an operation, with its arguments
              \* and (for get) its results
    base,     \* the Component the builder returned by New copies: ttl, key,
              \* initialized, lru (which lru it points to)
    rd,       \* per goroutine of Workers: the Renders it has completed, where
              \* it stands in Render, and the Component it renders with the
              \* options that built it
    lock,     \* c.lock: Free, or the goroutine of Callers that holds it
    call      \* per goroutine of Callers: the operation it has called, with
              \* its arguments, and the statement it stands at

vars == <<lru, now, pc, last, base, rd, lock, call>>

(* -------------------------------------------------------------- helpers *)

\* The sequence s without its element at index i.
DropAt(s, i) == [j \in 1..(Len(s) - 1) |-> IF j < i THEN s[j] ELSE s[j + 1]]

\* The least index of s holding e, or 0.
RECURSIVE IndexFrom(_, _, _)
IndexFrom(s, e, i) ==
    IF i > Len(s) THEN 0
    ELSE IF s[i] = e THEN i
    ELSE IndexFrom(s, e, i + 1)

\* list.Remove(elem): the element is unlinked; a list that does not hold it
\* is left alone.
ListRemove(s, e) ==
    LET i == IndexFrom(s, e, 1)
    IN  IF i = 0 THEN s ELSE DropAt(s, i)

\* list.PushFront
PushFront(s, e) == <<e>> \o s

\* list.MoveToFront
MoveToFront(s, e) ==
    IF IndexFrom(s, e, 1) = 0 THEN s ELSE <<e>> \o ListRemove(s, e)

\* The map m without key k.
MapDelete(m, k) == [x \in (DOMAIN m) \ {k} |-> m[x]]

\* The map m with m[k] = e.
MapSet(m, k, e) == [x \in (DOMAIN m) \cup {k} |-> IF x = k THEN e ELSE m[x]]

EmptyMap == [x \in {} |-> Nil]

(* ------------------------------------------------------------------ lru *)

\* entry.size
size(e) == Len(e.key) + Len(e.value) + Overhead

\* newLRU(maxMem), called when time.Now() = t
newLRU(maxMem, t) ==
    [ maxMem             |-> maxMem,
      mem                |-> 0,
      cache              |-> EmptyMap,
      list               |-> << >>,
      earliestExpiration |-> t + Day,
      disabled           |-> FALSE,
      reads              |-> 0,
      hits               |-> 0 ]

\* reset without its c.cache = make(...)
reset_keepsMap(c) ==
    [c EXCEPT !.mem = 0, !.list = << >>]

\* lru.reset
reset(c) ==
    [c EXCEPT !.mem = 0, !.list = << >>, !.cache = EmptyMap]

\* _deleteKey without its c.mem -= e.size()
_deleteKey_keepsMem(c, key) ==
    IF key \notin DOMAIN c.cache
    THEN c
    ELSE LET e == c.cache[key]
         IN  [c EXCEPT !.list  = ListRemove(c.list, e),
                       !.cache = MapDelete(c.cache, e.key)]

\* lru._deleteKey
_deleteKey(c, key) ==
    IF key \notin DOMAIN c.cache
    THEN c
    ELSE LET e == c.cache[key]
         IN  [c EXCEPT !.list  = ListRemove(c.list, e),
                       !.mem   = c.mem - size(e),
                       !.cache = MapDelete(c.cache, e.key)]

\* deleteKey that returns at once when the lru is disabled, as get and put do
deleteKey_enabledOnly(c, key) == IF c.disabled THEN c ELSE _deleteKey(c, key)

\* lru.deleteKey
deleteKey(c, key) == _deleteKey(c, key)

\* lru._evictExpired, the loop: elems is the list as it was when the loop
\* began (each step keeps elem.Prev() before it deletes), visited from the
\* back, index i, to the front.
RECURSIVE sweep(_, _, _, _)
sweep(c, elems, i, t) ==
    IF i = 0 THEN c
    ELSE LET e == elems[i]
         IN  IF t > e.expiration
             THEN sweep(_deleteKey(c, e.key), elems, i - 1, t)
             ELSE IF e.expiration < c.earliestExpiration
             THEN sweep([c EXCEPT !.earliestExpiration = e.expiration],
                        elems, i - 1, t)
             ELSE sweep(c, elems, i - 1, t)

\* _evictExpired without its c.earliestExpiration = now.Add(24 * time.Hour)
_evictExpired_keepsWatermark(c, t) ==
    IF t < c.earliestExpiration
    THEN c
    ELSE sweep(c, c.list, Len(c.list), t)

\* lru._evictExpired, called when time.Now() = t
_evictExpired(c, t) ==
    IF t < c.earliestExpiration
    THEN c
    ELSE sweep([c EXCEPT !.earliestExpiration = t + Day],
               c.list, Len(c.list), t)

\* The eviction loop as an if: one entry at most is evicted.
evictOldest_once(c) ==
    IF c.mem > c.maxMem /\ Len(c.list) > 1
    THEN _deleteKey(c, c.list[Len(c.list)].key)
    ELSE c

\* The eviction loop taking the entry behind the front one, the most
\* recently used of the others, instead of list.Back().
RECURSIVE evictOldest_newest(_)
evictOldest_newest(c) ==
    IF c.mem > c.maxMem /\ Len(c.list) > 1
    THEN evictOldest_newest(_deleteKey(c, c.list[2].key))
    ELSE c

\* The eviction loop without its c.list.Len() > 1: it may evict the entry
\* just put.
RECURSIVE evictOldest_toEmpty(_)
evictOldest_toEmpty(c) ==
    IF c.mem > c.maxMem /\ Len(c.list) > 0
    THEN evictOldest_toEmpty(_deleteKey(c, c.list[Len(c.list)].key))
    ELSE c

\* lru.put, the loop that brings the cache size within max size
RECURSIVE evictOldest(_)
evictOldest(c) ==
    IF c.mem > c.maxMem /\ Len(c.list) > 1
    THEN evictOldest(_deleteKey(c, c.list[Len(c.list)].key))
    ELSE c

\* put that keeps the entry of a key already resident and only moves it to
\* the front.
insert_keepsOld(c, key, value, expiration) ==
    IF key \in DOMAIN c.cache
    THEN [c EXCEPT !.list = MoveToFront(c.list, c.cache[key])]
    ELSE LET newEntry == [key |-> key, value |-> value,
                          expiration |-> expiration]
             c2       == [c EXCEPT !.list  = PushFront(c.list, newEntry),
                                   !.cache = MapSet(c.cache, key, newEntry),
                                   !.mem   = c.mem + size(newEntry)]
         IN  IF expiration < c2.earliestExpiration
             THEN [c2 EXCEPT !.earliestExpiration = expiration]
             ELSE c2

\* insert without its c._deleteKey(key): the old entry of the key stays in
\* the list behind the new one.
insert_keepsOldNode(c, key, value, expiration) ==
    LET newEntry == [key |-> key, value |-> value, expiration |-> expiration]
        c2       == [c EXCEPT !.list  = PushFront(c.list, newEntry),
                              !.cache = MapSet(c.cache, key, newEntry),
                              !.mem   = c.mem + size(newEntry)]
    IN  IF expiration < c2.earliestExpiration
        THEN [c2 EXCEPT !.earliestExpiration = expiration]
        ELSE c2

\* insert without the lowering of c.earliestExpiration
insert_keepsWatermark(c, key, value, expiration) ==
    LET c1       == _deleteKey(c, key)
        newEntry == [key |-> key, value |-> value, expiration |-> expiration]
    IN  [c1 EXCEPT !.list  = PushFront(c1.list, newEntry),
                   !.cache = MapSet(c1.cache, key, newEntry),
                   !.mem   = c1.mem + size(newEntry)]

\* lru.put up to the capacity check: the old entry of the key is deleted,
\* the new one pushed to the front and accounted, the watermark lowered.
insert(c, key, value, expiration) ==
    LET c1       == _deleteKey(c, key)
        newEntry == [key |-> key, value |-> value, expiration |-> expiration]
        c2       == [c1 EXCEPT !.list  = PushFront(c1.list, newEntry),
                               !.cache = MapSet(c1.cache, key, newEntry),
                               !.mem   = c1.mem + size(newEntry)]
    IN  IF expiration < c2.earliestExpiration
        THEN [c2 EXCEPT !.earliestExpiration = expiration]
        ELSE c2

\* lru.put reaches its call of _evictExpired
overMax(c, key, value, expiration) ==
    /\ ~c.disabled
    /\ insert(c, key, value, expiration).mem > c.maxMem

\* put without its check of c.disabled
put_ignoresDisabled(c, key, value, ttl, t1, t2) ==
    LET c3 == insert(c, key, value, t1 + ttl)
    IN  IF c3.mem > c3.maxMem
        THEN evictOldest(_evictExpired(c3, t2))
        ELSE c3

\* put that calls _evictExpired whether mem exceeds maxMem or not
put_alwaysSweeps(c, key, value, ttl, t1, t2) ==
    IF c.disabled THEN c
    ELSE evictOldest(_evictExpired(insert(c, key, value, t1 + ttl), t2))

\* lru.put: t1 is time.Now() when the expiration is computed, t2 is
\* time.Now() in _evictExpired.
put(c, key, value, ttl, t1, t2) ==
    IF c.disabled
    THEN c
    ELSE LET c3 == insert(c, key, value, t1 + ttl)
         IN  IF c3.mem > c3.maxMem
             THEN evictOldest(_evictExpired(c3, t2))
             ELSE c3

\* get without its check of the expiration
get_servesExpired(c, key, t) ==
    IF c.disabled
    THEN [c |-> c, value |-> Nil, found |-> FALSE]
    ELSE LET c1 == [c EXCEPT !.reads = c.reads + 1]
         IN  IF key \in DOMAIN c1.cache
             THEN LET e == c1.cache[key]
                  IN  [c |-> [c1 EXCEPT !.hits = c1.hits + 1,
                                        !.list = MoveToFront(c1.list, e)],
                       value |-> e.value,
                       found |-> TRUE]
             ELSE [c |-> c1, value |-> Nil, found |-> FALSE]

\* get that pushes the expiration of the entry it serves one unit further
get_sliding(c, key, t) ==
    IF c.disabled
    THEN [c |-> c, value |-> Nil, found |-> FALSE]
    ELSE LET c1 == [c EXCEPT !.reads = c.reads + 1]
         IN  IF key \in DOMAIN c1.cache
             THEN LET e  == c1.cache[key]
                      e2 == [e EXCEPT !.expiration = e.expiration + 1]
                  IN  IF t < e.expiration
                      THEN [c |-> [c1 EXCEPT
                                     !.hits  = c1.hits + 1,
                                     !.list  = <<e2>> \o ListRemove(c1.list, e),
                                     !.cache = MapSet(c1.cache, key, e2)],
                            value |-> e.value,
                            found |-> TRUE]
                      ELSE [c |-> _deleteKey(c1, e.key),
                            value |-> Nil, found |-> FALSE]
             ELSE [c |-> c1, value |-> Nil, found |-> FALSE]

\* get with c.reads++ moved into the branch of a resident key
get_countsResidentOnly(c, key, t) ==
    IF c.disabled
    THEN [c |-> c, value |-> Nil, found |-> FALSE]
    ELSE IF key \in DOMAIN c.cache
         THEN LET c1 == [c EXCEPT !.reads = c.reads + 1]
                  e  == c1.cache[key]
              IN  IF t < e.expiration
                  THEN [c |-> [c1 EXCEPT !.hits = c1.hits + 1,
                                         !.list = MoveToFront(c1.list, e)],
                        value |-> e.value,
                        found |-> TRUE]
                  ELSE [c |-> _deleteKey(c1, e.key),
                        value |-> Nil, found |-> FALSE]
         ELSE [c |-> c, value |-> Nil, found |-> FALSE]

\* get without its c.list.MoveToFront(elem)
get_keepsOrder(c, key, t) ==
    IF c.disabled THEN [c |-> c, value |-> Nil, found |-> FALSE]
    ELSE LET c1 == [c EXCEPT !.reads = c.reads + 1]
         IN  IF key \in DOMAIN c1.cache
             THEN LET e == c1.cache[key]
                  IN  IF t < e.expiration
                      THEN [c |-> [c1 EXCEPT !.hits = c1.hits + 1],
                            value |-> e.value, found |-> TRUE]
                      ELSE [c |-> _deleteKey(c1, e.key), value |-> Nil,
                            found |-> FALSE]
             ELSE [c |-> c1, value |-> Nil, found |-> FALSE]

\* get that does not count the read of an entry it finds expired
get_skipsExpiredRead(c, key, t) ==
    IF c.disabled THEN [c |-> c, value |-> Nil, found |-> FALSE]
    ELSE LET c1 == [c EXCEPT !.reads = c.reads + 1]
         IN  IF key \in DOMAIN c.cache
             THEN LET e == c.cache[key]
                  IN  IF t < e.expiration
                      THEN [c |-> [c1 EXCEPT !.hits = c1.hits + 1,
                                             !.list = MoveToFront(c1.list, e)],
                            value |-> e.value, found |-> TRUE]
                      ELSE [c |-> _deleteKey(c, e.key), value |-> Nil,
                            found |-> FALSE]
             ELSE [c |-> c1, value |-> Nil, found |-> FALSE]

\* get with c.hits++ before the test of the expiration
get_hitsOnExpired(c, key, t) ==
    IF c.disabled THEN [c |-> c, value |-> Nil, found |-> FALSE]
    ELSE LET c1 == [c EXCEPT !.reads = c.reads + 1]
         IN  IF key \in DOMAIN c1.cache
             THEN LET e  == c1.cache[key]
                      c2 == [c1 EXCEPT !.hits = c1.hits + 1]
                  IN  IF t < e.expiration
                      THEN [c |-> [c2 EXCEPT !.list = MoveToFront(c2.list, e)],
                            value |-> e.value, found |-> TRUE]
                      ELSE [c |-> _deleteKey(c2, e.key), value |-> Nil,
                            found |-> FALSE]
             ELSE [c |-> c1, value |-> Nil, found |-> FALSE]

\* lru.get, called when time.Now() = t: the lru afterwards and the two
\* results.
get(c, key, t) ==
    IF c.disabled
    THEN [c |-> c, value |-> Nil, found |-> FALSE]
    ELSE LET c1 == [c EXCEPT !.reads = c.reads + 1]
         IN  IF key \in DOMAIN c1.cache
             THEN LET e == c1.cache[key]
                  IN  IF t < e.expiration
                      THEN [c |-> [c1 EXCEPT !.hits = c1.hits + 1,
                                             !.list = MoveToFront(c1.list, e)],
                            value |-> e.value,
                            found |-> TRUE]
                      ELSE [c |-> _deleteKey(c1, e.key),
                            value |-> Nil, found |-> FALSE]
             ELSE [c |-> c1, value |-> Nil, found |-> FALSE]

\* Component.Stats
Stats(c) ==
    [ MaxMemory  |-> c.maxMem,
      UsedMemory |-> c.mem,
      Items      |-> Len(c.list),
      Reads      |-> c.reads,
      Hits       |-> c.hits ]

\* The record of a step: the operation, its key, its value (for get, the
\* value returned), for put the expiration it computed, get's second result,
\* and the number of keys the step took out of the cache.
Op(name, key, value, expiration, found, before, after) ==
    [op |-> name, key |-> key, value |-> value, expiration |-> expiration,
     found |-> found,
     removed |-> Cardinality((DOMAIN before.cache) \ (DOMAIN after.cache))]

(* ------------------------------------------------------------ Component *)

\* The value of c.lru: which lru the Component points to.  The lrus are
\* named in the order newLRU creates them, with the maxMem it gave them.
FirstLRU(maxMem) == [id |-> 1, maxMem |-> maxMem]
NextLRU(ptr, maxMem) == [id |-> ptr.id + 1, maxMem |-> maxMem]

\* WithTTL(d), applied to c
WithTTL(c, d) == [c EXCEPT !.ttl = d]

\* WithMaxMemory applied to any Component, initialized or not
WithMaxMemory_anytime(c, maxBytes) ==
    [c EXCEPT !.lru = NextLRU(c.lru, IF maxBytes = 0 THEN MaxInt ELSE maxBytes)]

\* WithMaxMemory(maxBytes), applied to c
WithMaxMemory(c, maxBytes) ==
    IF c.initialized
    THEN c
    ELSE [c EXCEPT !.lru = NextLRU(c.lru,
                                   IF maxBytes = 0 THEN MaxInt ELSE maxBytes)]

\* for _, opt := range opts { opt(&c) }
RECURSIVE ApplyOpts(_, _)
ApplyOpts(c, opts) ==
    IF opts = << >> THEN c
    ELSE ApplyOpts(IF Head(opts).opt = "WithTTL"
                   THEN WithTTL(c, Head(opts).arg)
                   ELSE WithMaxMemory(c, Head(opts).arg),
                   Tail(opts))

\* New(opts...): the base Component of the builder it returns
New(opts) ==
    LET b == [ttl |-> DefaultTTL, key |-> NoKey, initialized |-> FALSE,
              lru |-> FirstLRU(DefaultMem)]
    IN  [ApplyOpts(b, opts) EXCEPT !.initialized = TRUE]

\* The builder New returns, called as cache(key, opts...): b is its base.
ComponentBuilder(b, key, opts) == ApplyOpts([b EXCEPT !.key = key], opts)

\* The zero Component, held by a goroutine that is not in Render.
NoComp == [ttl |-> 0, key |-> NoKey, initialized |-> FALSE,
           lru |-> [id |-> 0, maxMem |-> 0]]

NotRendering(n) ==
    [n |-> n, at |-> "idle", comp |-> NoComp, opts |-> << >>, buf |-> Nil]

\* A goroutine whose Render has only w.Write(buf) left to do, after n
\* Renders: of its Component only the key is still of interest.
Writing(n, key, buf) ==
    [n |-> n, at |-> "write", comp |-> [NoComp EXCEPT !.key = key],
     opts |-> << >>, buf |-> buf]

\* The lru that c.lru points to: that of the builder's base, whose state is
\* the variable lru, or one that newLRU made for c alone.
Deref(c, b, store, t) ==
    IF c.lru = b.lru THEN store ELSE newLRU(c.lru.maxMem, t)

\* A goroutine of Callers that is in no operation.
NoCall == [op |-> "", key |-> NoKey, disable |-> FALSE, at |-> "idle"]

\* defer c.lock.Unlock(), run when the method returns
Unlock_forgotten(l) == l

Unlock(l) == Free

(* -------------------------------------------------------------- actions *)

Init ==
    /\ \E m \in Capacities : base = New(<<OptMem(m)>>)
    /\ lru = newLRU(base.lru.maxMem, 0)
    /\ now = 0
    /\ pc = [p \in Procs |-> "idle"]
    /\ last = Op("new", NoKey, Nil, 0, FALSE, lru, lru)
    /\ rd = [w \in Workers |-> NotRendering(0)]
    /\ lock = Free
    /\ call = [p \in Callers |-> NoCall]

\* time passes
Tick ==
    /\ now < MaxTime
    /\ now' = now + 1
    /\ UNCHANGED <<lru, pc, last, base, rd, lock, call>>

\* lru.get(k), as Component.Render calls it
Get(k) ==
    /\ lru.disabled \/ lru.reads < MaxReads
    /\ LET r == get(lru, k, now)
       IN  /\ lru' = r.c
           /\ last' = Op("get", k, r.value, 0, r.found, lru, lru')
    /\ UNCHANGED <<now, pc, base, rd, lock, call>>

\* lru.put(k, v, ttl), as Component.Render calls it after a miss.  The clock
\* may advance between the two readings put makes of it.  A disabled lru
\* returns before it computes the expiration.
Put(k, v, ttl) ==
    /\ \E t2 \in now..MaxTime :
          /\ now' = t2
          /\ t2 > now => overMax(lru, k, v, now + ttl)
          /\ lru' = put(lru, k, v, ttl, now, t2)
    /\ last' = Op("put", k, v, IF lru.disabled THEN 0 ELSE now + ttl, FALSE,
                  lru, lru')
    /\ UNCHANGED <<pc, base, rd, lock, call>>

\* Component.Remove(k)
Remove(k) ==
    /\ lru' = deleteKey(lru, k)
    /\ last' = Op("remove", k, Nil, 0, FALSE, lru, lru')
    /\ UNCHANGED <<now, pc, base, rd, lock, call>>

\* Component.Reset
Reset ==
    /\ lru' = reset(lru)
    /\ last' = Op("reset", NoKey, Nil, 0, FALSE, lru, lru')
    /\ UNCHANGED <<now, pc, base, rd, lock, call>>

\* Component.Disable(true), its call of lru.reset
DisableReset(p) ==
    /\ pc[p] = "idle"
    /\ lru' = reset(lru)
    /\ pc' = [pc EXCEPT ![p] = "disable_set"]
    /\ last' = Op("disable_reset", NoKey, Nil, 0, FALSE, lru, lru')
    /\ UNCHANGED <<now, base, rd, lock, call>>

\* Component.Disable(true), its assignment c.lru.disabled = true, made
\* without c.lock
DisableSet(p) ==
    /\ pc[p] = "disable_set"
    /\ lru' = [lru EXCEPT !.disabled = TRUE]
    /\ pc' = [pc EXCEPT ![p] = "idle"]
    /\ last' = Op("disable", NoKey, Nil, 0, FALSE, lru, lru')
    /\ UNCHANGED <<now, base, rd, lock, call>>

\* Component.Disable(false): the assignment alone, made without c.lock
Enable(p) ==
    /\ pc[p] = "idle"
    /\ lru' = [lru EXCEPT !.disabled = FALSE]
    /\ last' = Op("enable", NoKey, Nil, 0, FALSE, lru, lru')
    /\ UNCHANGED <<now, pc, base, rd, lock, call>>

\* Component.Stats: the fields are read without c.lock
ReadStats ==
    /\ last' = Op("stats", NoKey, Nil, 0, FALSE, lru, lru)
    /\ UNCHANGED <<lru, now, pc, base, rd, lock, call>>

Next ==
    \/ Tick
    \/ \E k \in Keys : Get(k)
    \/ \E k \in Keys, v \in Values, ttl \in TTLs : Put(k, v, ttl)
    \/ \E k \in Keys : Remove(k)
    \/ Reset
    \/ \E p \in Procs : DisableReset(p)
    \/ \E p \in Procs : DisableSet(p)
    \/ \E p \in Procs : Enable(p)
    \/ ReadStats

Spec == Init /\ [][Next]_vars

(* ------------------------------------------- puts with ttls beyond a day *)

NextSweep ==
    \/ Tick
    \/ \E k \in Keys, v \in Values, ttl \in LongTTLs : Put(k, v, ttl)

SpecSweep == Init /\ [][NextSweep]_vars

(* ---------------------------------------- Render by concurrent goroutines *)

InitRender ==
    /\ \E opts \in BuilderOpts : base = New(opts)
    /\ lru = newLRU(base.lru.maxMem, 0)
    /\ now = 0
    /\ pc = [p \in Procs |-> "idle"]
    /\ last = Op("new", NoKey, Nil, 0, FALSE, lru, lru)
    /\ rd = [w \in Workers |-> NotRendering(0)]
    /\ lock = Free
    /\ call = [p \in Callers |-> NoCall]

\* cache(k, opts...).Render up to the return of c.lru.get: on a hit the
\* cached bytes cc are what Render goes on to write.
RenderGet(w, k, opts) ==
    /\ rd[w].at = "idle"
    /\ rd[w].n < RendersEach
    /\ LET c == ComponentBuilder(base, k, opts)
           r == get(Deref(c, base, lru, now), c.key, now)
       IN  /\ lru' = IF c.lru = base.lru THEN r.c ELSE lru
           /\ rd' = [rd EXCEPT ![w] =
                        IF r.found
                        THEN Writing(@.n, c.key, r.value)
                        ELSE [n |-> @.n, at |-> "miss", comp |-> c,
                              opts |-> opts, buf |-> Nil]]
           /\ last' = Op("get", c.key, r.value, 0, r.found, lru, lru')
    /\ UNCHANGED <<now, pc, base, lock, call>>

\* Render after a miss: templ.GetChildren returns nil, Render returns nil.
RenderNoChildren(w) ==
    /\ rd[w].at = "miss"
    /\ rd' = [rd EXCEPT ![w] = NotRendering(@.n + 1)]
    /\ last' = Op("no_children", rd[w].comp.key, Nil, 0, FALSE, lru, lru)
    /\ UNCHANGED <<lru, now, pc, base, lock, call>>

\* As RenderError, but what the children rendered before they failed is put.
RenderError_putsAnyway(w) ==
    /\ rd[w].at = "miss"
    /\ rd' = [rd EXCEPT ![w] = NotRendering(@.n + 1)]
    /\ lru' = put(lru, rd[w].comp.key, "x", rd[w].comp.ttl, now, now)
    /\ last' = Op("children_error", rd[w].comp.key, Nil, 0, FALSE, lru, lru')
    /\ UNCHANGED <<now, pc, base, lock, call>>

\* Render after a miss: children.Render returns an error, Render returns it.
RenderError(w) ==
    /\ rd[w].at = "miss"
    /\ rd' = [rd EXCEPT ![w] = NotRendering(@.n + 1)]
    /\ last' = Op("children_error", rd[w].comp.key, Nil, 0, FALSE, lru, lru)
    /\ UNCHANGED <<lru, now, pc, base, lock, call>>

\* Render after a miss: the children have rendered v into the buffer and
\* c.lru.put(c.key, v, c.ttl) is called; v is what Render goes on to write.
RenderPut(w, v) ==
    /\ rd[w].at = "miss"
    /\ LET c     == rd[w].comp
           store == Deref(c, base, lru, now)
       IN  /\ \E t2 \in now..MaxTime :
                 /\ now' = t2
                 /\ t2 > now => overMax(store, c.key, v, now + c.ttl)
                 /\ lru' = IF c.lru = base.lru
                           THEN put(store, c.key, v, c.ttl, now, t2)
                           ELSE lru
           /\ last' = Op("put", c.key, v, now + c.ttl, FALSE, lru, lru')
    /\ rd' = [rd EXCEPT ![w] = Writing(@.n, @.comp.key, v)]
    /\ UNCHANGED <<pc, base, lock, call>>

\* w.Write(cc) after a hit, w.Write(buf.Bytes()) after the put: Render
\* returns.
RenderWrite(w) ==
    /\ rd[w].at = "write"
    /\ rd' = [rd EXCEPT ![w] = NotRendering(@.n + 1)]
    /\ last' = Op("write", rd[w].comp.key, rd[w].buf, 0, FALSE, lru, lru)
    /\ UNCHANGED <<lru, now, pc, base, lock, call>>

NextRender ==
    \/ Tick
    \/ \E w \in Workers, k \in RenderKeys, opts \in CompOpts :
          RenderGet(w, k, opts)
    \/ \E w \in Workers : RenderNoChildren(w)
    \/ \E w \in Workers : RenderError(w)
    \/ \E w \in Workers, v \in Values : RenderPut(w, v)
    \/ \E w \in Workers : RenderWrite(w)

SpecRender == InitRender /\ [][NextRender]_vars

(* ----------------------------------------- the operations, with c.lock *)

\* The bytes the children of the component of key k render.
BodyOf(k) == IF k = "CC" THEN "yyyyyyyyyyyyyyyyyyyyyyyyyyyyyyy" ELSE "x"

\* The gets called and not yet made.
GetsPending == Cardinality({q \in Callers : call[q].at \in {"get.Lock", "get"}})

InitLock ==
    /\ \E m \in Capacities : base = New(<<OptMem(m)>>)
    /\ lru = newLRU(base.lru.maxMem, 0)
    /\ now = 0
    /\ pc = [p \in Procs |-> "idle"]
    /\ last = Op("new", NoKey, Nil, 0, FALSE, lru, lru)
    /\ rd = [w \in Workers |-> NotRendering(0)]
    /\ lock = Free
    /\ call = [p \in Callers |-> NoCall]

\* The goroutine goes from one statement to another.
Goto(p, at) == call' = [call EXCEPT ![p].at = at]

\* The method returns to the caller of the operation, which is complete.
Return(p) == call' = [call EXCEPT ![p] = NoCall]

\* cache(k).Render is called and reaches c.lock.Lock() of lru.get
CallRender(p, k) ==
    /\ call[p].at = "idle"
    /\ lru.reads + GetsPending < MaxReads
    /\ call' = [call EXCEPT ![p] = [op |-> "Render", key |-> k,
                                    disable |-> FALSE, at |-> "get.Lock"]]
    /\ UNCHANGED <<lru, now, pc, last, base, rd, lock>>

\* Remove(k) is called and reaches c.lock.Lock() of lru.deleteKey
CallRemove(p, k) ==
    /\ call[p].at = "idle"
    /\ call' = [call EXCEPT ![p] = [op |-> "Remove", key |-> k,
                                    disable |-> FALSE, at |-> "deleteKey.Lock"]]
    /\ UNCHANGED <<lru, now, pc, last, base, rd, lock>>

\* Reset() is called and reaches c.lock.Lock() of lru.reset
CallReset(p) ==
    /\ call[p].at = "idle"
    /\ call' = [call EXCEPT ![p] = [op |-> "Reset", key |-> NoKey,
                                    disable |-> FALSE, at |-> "reset.Lock"]]
    /\ UNCHANGED <<lru, now, pc, last, base, rd, lock>>

\* Disable(d) is called: with d it calls lru.reset first, without it goes
\* to the assignment of the flag.
CallDisable(p, d) ==
    /\ call[p].at = "idle"
    /\ call' = [call EXCEPT ![p] = [op |-> "Disable", key |-> NoKey,
                                    disable |-> d,
                                    at |-> IF d THEN "reset.Lock" ELSE "set"]]
    /\ UNCHANGED <<lru, now, pc, last, base, rd, lock>>

\* c.lock.Lock() returns: the lock was free and the goroutine holds it.
LockStep(p) ==
    /\ call[p].at \in {"get.Lock", "put.Lock", "deleteKey.Lock", "reset.Lock"}
    /\ lock = Free
    /\ lock' = p
    /\ Goto(p, CASE call[p].at = "get.Lock"       -> "get"
                 [] call[p].at = "put.Lock"       -> "put"
                 [] call[p].at = "deleteKey.Lock" -> "deleteKey"
                 [] call[p].at = "reset.Lock"     -> "reset")
    /\ UNCHANGED <<lru, now, pc, last, base, rd>>

\* lru.get with the lock held, to its return; Render returns on a hit and
\* goes on to its children on a miss.
GetLocked(p) ==
    /\ call[p].at = "get" /\ lock = p
    /\ LET r == get(lru, call[p].key, now)
       IN  /\ lru' = r.c
           /\ IF r.found THEN Return(p) ELSE Goto(p, "children")
    /\ lock' = Unlock(lock)
    /\ UNCHANGED <<now, pc, last, base, rd>>

\* Render: there are no children, or their Render returns an error.
ChildrenFailed(p) ==
    /\ call[p].at = "children"
    /\ Return(p)
    /\ UNCHANGED <<lru, now, pc, last, base, rd, lock>>

\* Render: the children are rendered into the buffer and c.lru.put is
\* called, which reaches its c.lock.Lock().
ChildrenRendered(p) ==
    /\ call[p].at = "children"
    /\ Goto(p, "put.Lock")
    /\ UNCHANGED <<lru, now, pc, last, base, rd, lock>>

\* lru.put with the lock held, up to its eviction loop: it returns when the
\* lru is disabled or mem <= maxMem.
PutLocked(p) ==
    /\ call[p].at = "put" /\ lock = p
    /\ LET c3 == insert(lru, call[p].key, BodyOf(call[p].key), now + base.ttl)
       IN  IF lru.disabled
           THEN lru' = lru /\ Return(p) /\ lock' = Unlock(lock)
           ELSE IF c3.mem > c3.maxMem
           THEN /\ lru' = _evictExpired(c3, now)
                /\ Goto(p, "put.loop")
                /\ lock' = lock
           ELSE lru' = c3 /\ Return(p) /\ lock' = Unlock(lock)
    /\ UNCHANGED <<now, pc, last, base, rd>>

\* lru.put, one test of its eviction loop: an iteration, or the return.
EvictLoop(p) ==
    /\ call[p].at = "put.loop" /\ lock = p
    /\ IF lru.mem > lru.maxMem /\ Len(lru.list) > 1
       THEN /\ lru' = _deleteKey(lru, lru.list[Len(lru.list)].key)
            /\ UNCHANGED <<call, lock>>
       ELSE lru' = lru /\ Return(p) /\ lock' = Unlock(lock)
    /\ UNCHANGED <<now, pc, last, base, rd>>

\* lru.deleteKey with the lock held
DeleteKeyLocked(p) ==
    /\ call[p].at = "deleteKey" /\ lock = p
    /\ lru' = _deleteKey(lru, call[p].key)
    /\ Return(p)
    /\ lock' = Unlock(lock)
    /\ UNCHANGED <<now, pc, last, base, rd>>

\* lru.reset with the lock held; Disable(true) goes on to the assignment.
ResetLocked(p) ==
    /\ call[p].at = "reset" /\ lock = p
    /\ lru' = reset(lru)
    /\ IF call[p].op = "Disable" THEN Goto(p, "set") ELSE Return(p)
    /\ lock' = Unlock(lock)
    /\ UNCHANGED <<now, pc, last, base, rd>>

\* Disable: c.lru.disabled = disable, without the lock
SetDisabled(p) ==
    /\ call[p].at = "set"
    /\ lru' = [lru EXCEPT !.disabled = call[p].disable]
    /\ Return(p)
    /\ UNCHANGED <<now, pc, last, base, rd, lock>>

NextLock ==
    \/ \E p \in Callers, k \in Keys : CallRender(p, k)
    \/ \E p \in Callers, k \in Keys : CallRemove(p, k)
    \/ \E p \in Callers : CallReset(p)
    \/ \E p \in Callers, d \in BOOLEAN : CallDisable(p, d)
    \/ \E p \in Callers : LockStep(p)
    \/ \E p \in Callers : GetLocked(p)
    \/ \E p \in Callers : ChildrenFailed(p)
    \/ \E p \in Callers : ChildrenRendered(p)
    \/ \E p \in Callers : PutLocked(p)
    \/ \E p \in Callers : EvictLoop(p)
    \/ \E p \in Callers : DeleteKeyLocked(p)
    \/ \E p \in Callers : ResetLocked(p)
    \/ \E p \in Callers : SetDisabled(p)

\* The scheduler runs every goroutine that can take a step: one that holds
\* the lock, or stands at a statement outside it, goes on (the children's
\* Render is taken to return); and c.lock.Lock() returns for every waiter,
\* since sync.Mutex hands the lock to a goroutine that has waited long
\* (starvation mode), whoever else asks for it.
Fairness ==
    \A p \in Callers :
        /\ SF_vars(LockStep(p))
        /\ WF_vars(GetLocked(p))
        /\ WF_vars(ChildrenFailed(p) \/ ChildrenRendered(p))
        /\ WF_vars(PutLocked(p))
        /\ WF_vars(EvictLoop(p))
        /\ WF_vars(DeleteKeyLocked(p))
        /\ WF_vars(ResetLocked(p))
        /\ WF_vars(SetDisabled(p))

SpecLock == InitLock /\ [][NextLock]_vars /\ Fairness

(* ------------------------------------------------- steps, as predicates *)

\* Nothing but the clock moves.
ClockOnly == lru' = lru /\ pc' = pc /\ last' = last

\* The step is a put, with the arguments its record names.  Every step of
\* Next but Tick and put writes another operation into the record, so a step
\* that ends with a put in the record is a put or ClockOnly, and in the
\* latter case it is a put when it satisfies Put.
PutStep ==
    /\ last'.op = "put"
    /\ ClockOnly
         => IF lru.disabled
            THEN \E ttl \in TTLs : Put(last'.key, last'.value, ttl)
            ELSE /\ (last'.expiration - now) \in TTLs
                 /\ Put(last'.key, last'.value, last'.expiration - now)

\* The step is a get of the key its record names.
GetStep ==
    /\ last'.op = "get"
    /\ now' = now
    /\ Get(last'.key)

(* --------------------------------------------------------------- claims *)

RECURSIVE ListBytes(_)
ListBytes(s) == IF s = << >> THEN 0 ELSE size(Head(s)) + ListBytes(Tail(s))

RECURSIVE MapBytes(_, _)
MapBytes(m, ks) ==
    IF ks = {} THEN 0
    ELSE LET k == CHOOSE x \in ks : TRUE
         IN  size(m[k]) + MapBytes(m, ks \ {k})

IsPrefix(s, t) == Len(s) <= Len(t) /\ \A i \in 1..Len(s) : s[i] = t[i]

\* The list without its entries of key k.
WithoutKey(s, k) == SelectSeq(s, LAMBDA e : e.key # k)

\* No entry of s has reached its expiration at time t.
NoneExpired(s, t) == \A i \in 1..Len(s) : t < s[i].expiration

\* C1: in every reachable state usedMemory (c.mem) is the sum of
\* len(key) + len(value) + 24 over the entries of the list, and over the
\* entries of the map.
C1_UsedMemoryIsSum ==
    /\ lru.mem = ListBytes(lru.list)
    /\ lru.mem = MapBytes(lru.cache, DOMAIN lru.cache)

\* A put has evicted, two entries of different sizes are resident, and one
\* of them was read.
C1_Witness ==
    /\ last.op = "put" /\ last.removed > 0
    /\ Len(lru.list) = 2
    /\ size(lru.list[1]) # size(lru.list[2])
    /\ lru.hits > 0

\* C2: when a put on an enabled store has completed, mem <= maxMem or
\* exactly one entry is resident.
C2_WithinCapacityAfterPut ==
    (last.op = "put" /\ ~lru.disabled)
        => (lru.mem <= lru.maxMem \/ Len(lru.list) = 1)

\* A put has evicted every other entry and its own entry alone still
\* exceeds maxMem.
C2_Witness ==
    /\ last.op = "put" /\ ~lru.disabled
    /\ last.removed = 2
    /\ Len(lru.list) = 1
    /\ lru.mem > lru.maxMem

\* C3: a put on an enabled store at which no entry is expired leaves a
\* prefix of the recency order (the new entry, then the old list without
\* the key, most recently used first): what it evicts is a suffix of that
\* order, and never the new entry.
C3_EvictsLeastRecentlyUsed ==
    [][ (PutStep /\ ~lru.disabled)
          => LET new   == [key |-> last'.key, value |-> last'.value,
                           expiration |-> last'.expiration]
                 order == <<new>> \o WithoutKey(lru.list, last'.key)
             IN  NoneExpired(order, now')
                   => /\ lru'.list # << >>
                      /\ IsPrefix(lru'.list, order) ]_vars

\* A put has evicted one entry and kept another behind its own, after a get
\* had hit, and no resident entry is expired.
C3_Witness ==
    /\ last.op = "put" /\ ~lru.disabled
    /\ last.removed = 1
    /\ Len(lru.list) = 2
    /\ lru.hits > 0
    /\ NoneExpired(lru.list, now)

\* The entry a put step's record describes.
PutEntry(r) == [key |-> r.key, value |-> r.value, expiration |-> r.expiration]

\* C4 (for an enabled store; C7 covers a disabled one): a get that returns
\* found returns the value of an entry resident under that very key and not
\* yet expired; an entry comes into the map, or changes, only by a put of
\* its key, and then holds that put's value; after a put the key holds no
\* other value, after Remove it is absent, after a reset none is resident;
\* and a get of k that follows a put(k, v, ttl) at once, before the
\* expiration, returns (v, true).
C4_GetReturnsLastPut ==
    [][ /\ (GetStep /\ last'.found)
            => /\ ~lru.disabled
               /\ last'.key \in DOMAIN lru.cache
               /\ lru.cache[last'.key].key = last'.key
               /\ lru.cache[last'.key].value = last'.value
               /\ now < lru.cache[last'.key].expiration
        /\ \A k \in DOMAIN lru'.cache :
              (k \notin DOMAIN lru.cache \/ lru'.cache[k] # lru.cache[k])
                 => /\ PutStep /\ ~lru.disabled
                    /\ last'.key = k
                    /\ lru'.cache[k] = PutEntry(last')
        /\ (PutStep /\ ~lru.disabled /\ last'.key \in DOMAIN lru'.cache)
              => lru'.cache[last'.key].value = last'.value
        /\ last'.op = "remove" => last'.key \notin DOMAIN lru'.cache
        /\ last'.op \in {"reset", "disable_reset"} => lru'.cache = EmptyMap
        /\ (GetStep /\ ~lru.disabled
              /\ last.op = "put" /\ last.key = last'.key
              /\ now < last.expiration)
              => (last'.found /\ last'.value = last.value) ]_vars

\* A get of A has returned x, the second hit of the run, with two entries
\* resident.
C4_Witness ==
    /\ last.op = "get" /\ last.found
    /\ last.key = "A" /\ last.value = "x"
    /\ lru.hits = 2
    /\ Len(lru.list) = 2

\* C5 (for an enabled store; C7 covers a disabled one): get never returns
\* found for an entry whose expiration has been reached; a get of a resident
\* key with now >= expiration returns not-found, removes that entry and no
\* other, and lowers mem by its size; a put of the key that follows puts the
\* new entry at the front, and the get after that returns (v2, true).
C5_LazyExpiration ==
    [][ /\ (GetStep /\ last'.found)
            => now < lru.cache[last'.key].expiration
        /\ (GetStep /\ ~lru.disabled
              /\ last'.key \in DOMAIN lru.cache
              /\ now >= lru.cache[last'.key].expiration)
            => /\ ~last'.found /\ last'.value = Nil
               /\ last'.key \notin DOMAIN lru'.cache
               /\ lru'.mem = lru.mem - size(lru.cache[last'.key])
               /\ lru'.list = ListRemove(lru.list, lru.cache[last'.key])
               /\ last'.removed = 1
        /\ (PutStep /\ ~lru.disabled
              /\ last.op = "get" /\ ~last.found /\ last.removed = 1
              /\ last'.key = last.key
              /\ now' < last'.expiration)
            => /\ lru'.list # << >>
               /\ Head(lru'.list) = PutEntry(last')
               /\ lru'.cache[last'.key] = PutEntry(last')
        /\ (GetStep /\ ~lru.disabled
              /\ last.op = "put" /\ last.key = last'.key
              /\ now < last.expiration)
            => (last'.found /\ last'.value = last.value) ]_vars

\* A get has found its key expired and removed it, another entry staying.
C5_Witness ==
    /\ last.op = "get" /\ ~last.found /\ last.removed = 1
    /\ ~lru.disabled
    /\ Len(lru.list) = 1
    /\ lru.mem > 0

\* C6: a get that returns found leaves every entry, that of its key
\* included, with the value and the expiration it had, and is served only
\* before that expiration; an expiration of a resident key changes only by a
\* put of that key.
C6_HitKeepsExpiration ==
    [][ /\ (GetStep /\ last'.found)
            => /\ lru'.cache = lru.cache
               /\ now < lru'.cache[last'.key].expiration
        /\ \A k \in (DOMAIN lru.cache) \cap (DOMAIN lru'.cache) :
              lru'.cache[k].expiration # lru.cache[k].expiration
                 => (PutStep /\ last'.key = k) ]_vars

\* A key has been served twice, the second time at the last instant before
\* its expiration.
C6_Witness ==
    /\ last.op = "get" /\ last.found
    /\ lru.hits = 2
    /\ lru.cache[last.key].expiration = now + 1
    /\ now > 0

\* C7: while the lru is disabled a get returns not-found, and a put leaves
\* the map, the list, mem and the watermark as they were.
C7_DisabledIsInert ==
    [][ lru.disabled
          => /\ GetStep => (~last'.found /\ last'.value = Nil)
             /\ PutStep => /\ lru'.cache = lru.cache
                           /\ lru'.list = lru.list
                           /\ lru'.mem = lru.mem
                           /\ lru'.earliestExpiration = lru.earliestExpiration
       ]_vars

\* A put has been made on a disabled lru.
C7_Witness ==
    /\ lru.disabled
    /\ last.op = "put"
    /\ pc = [p \in Procs |-> "idle"]

\* C8: whenever the lru is disabled (a Disable(true) has completed and no
\* Disable(false) since) it holds no entries: no item and mem = 0.
C8_DisabledIsEmpty ==
    lru.disabled => (Len(lru.list) = 0 /\ lru.mem = 0 /\ lru.cache = EmptyMap)

\* C9: while one operation is in progress no step of another operation
\* reads or writes the lru: between the two statements of a Disable(true)
\* nothing but the clock moves.
C9_OperationsExclusive ==
    [][ \A p \in Procs :
           (pc[p] = "disable_set" /\ pc'[p] = "disable_set")
              => (lru' = lru /\ last' = last) ]_vars

\* C10 as stated: every get adds one to reads, on a disabled lru too.
C10_EveryGetCounts ==
    [][ GetStep => lru'.reads = lru.reads + 1 ]_vars

\* C10 amended: a get on an enabled lru adds exactly one to reads, whether
\* it hits, misses or finds the key expired; a get on a disabled lru leaves
\* reads as it was.
C10_EnabledGetCounts ==
    [][ GetStep => lru'.reads = lru.reads + (IF lru.disabled THEN 0 ELSE 1)
      ]_vars

\* A get has missed on an enabled lru, and reads counts it.
C10_Witness ==
    /\ last.op = "get" /\ ~last.found
    /\ ~lru.disabled
    /\ lru.reads = 2 /\ lru.hits = 0

\* The step is a Remove of the key its record names.
RemoveStep ==
    /\ last'.op = "remove"
    /\ now' = now
    /\ Remove(last'.key)

\* C12: when Reset has completed the lru holds nothing (no item, mem = 0,
\* an empty map); a key that is not resident becomes resident only by a put
\* of that key; and a get of a key that is not resident returns not-found:
\* so a key resident before the Reset misses until it is put again.
C12_ResetEmpties ==
    [][ /\ last'.op = "reset"
            => /\ Len(lru'.list) = 0
               /\ lru'.mem = 0
               /\ lru'.cache = EmptyMap
               /\ Stats(lru').Items = 0 /\ Stats(lru').UsedMemory = 0
        /\ \A k \in Keys :
              (k \notin DOMAIN lru.cache /\ k \in DOMAIN lru'.cache)
                 => (PutStep /\ ~lru.disabled /\ last'.key = k)
        /\ (GetStep /\ last'.key \notin DOMAIN lru.cache)
              => (~last'.found /\ last'.value = Nil) ]_vars

\* A Reset has emptied an lru that held two entries and had served a hit.
C12_Witness ==
    /\ last.op = "reset"
    /\ last.removed = 2
    /\ lru.hits > 0
    /\ ~lru.disabled

\* C13: immediately after Reset completes, Stats reports Reads = 0 and
\* Hits = 0.
C13_ResetClearsStats ==
    last.op = "reset" => (Stats(lru).Reads = 0 /\ Stats(lru).Hits = 0)

\* C14: Remove(k) of a resident key, on an enabled or a disabled lru, takes
\* k out of the map and the list, so that a get of k misses; mem goes down
\* by exactly the size of k's entry; every other entry keeps its value, its
\* expiration and its place relative to the others; the counters, the
\* watermark, maxMem and the flag stay.  Remove of an absent key changes
\* nothing.
C14_RemoveFrame ==
    [][ RemoveStep
          => LET k == last'.key
             IN  IF k \in DOMAIN lru.cache
                 THEN /\ DOMAIN lru'.cache = (DOMAIN lru.cache) \ {k}
                      /\ \A j \in DOMAIN lru'.cache :
                            lru'.cache[j] = lru.cache[j]
                      /\ lru'.list = WithoutKey(lru.list, k)
                      /\ lru'.mem = lru.mem - size(lru.cache[k])
                      /\ ~get(lru', k, now').found
                      /\ lru' = [lru EXCEPT !.cache = lru'.cache,
                                            !.list  = lru'.list,
                                            !.mem   = lru'.mem]
                 ELSE lru' = lru ]_vars

\* A Remove has taken one of two entries out of an enabled lru, before any
\* get.
C14_Witness ==
    /\ last.op = "remove" /\ last.removed = 1
    /\ ~lru.disabled
    /\ Len(lru.list) = 1
    /\ lru.reads = 0

\* C15: a put on an enabled lru of an entry larger than maxMem, not expired
\* when the put returns, leaves that entry alone in the list and the map
\* (every other entry is evicted, the new one never), with mem equal to its
\* size and so above maxMem.
C15_OversizedEntryStays ==
    [][ (PutStep /\ ~lru.disabled
           /\ size(PutEntry(last')) > lru.maxMem
           /\ now' < last'.expiration)
          => /\ lru'.list = <<PutEntry(last')>>
             /\ DOMAIN lru'.cache = {last'.key}
             /\ lru'.cache[last'.key] = PutEntry(last')
             /\ lru'.mem = size(PutEntry(last'))
             /\ lru'.mem > lru'.maxMem ]_vars

\* A put of an entry larger than maxMem has evicted the one entry that was
\* resident, which had not expired, and stays alone.
C15_Witness ==
    /\ last.op = "put" /\ ~lru.disabled
    /\ last.removed = 1
    /\ lru.list = <<PutEntry(last)>>
    /\ size(PutEntry(last)) > lru.maxMem
    /\ now < lru.earliestExpiration

\* The lru as put leaves it to its eviction loop when it has called
\* _evictExpired at time t2: the new entry inserted, the sweep done.
AfterSweep(c, r, t2) == _evictExpired(insert(c, r.key, r.value, r.expiration), t2)

\* The put of record r on c calls _evictExpired at time t2 and the sweep
\* runs: mem > maxMem after the insertion and t2 >= earliestExpiration.
SweepRuns(c, r, t2) ==
    /\ overMax(c, r.key, r.value, r.expiration)
    /\ t2 >= insert(c, r.key, r.value, r.expiration).earliestExpiration

\* C16: whenever the sweep of a put runs, no entry with expiration <= now is
\* resident immediately after it.
C16_SweepRemovesExpired ==
    [][ (PutStep /\ SweepRuns(lru, last', now'))
          => LET swept == AfterSweep(lru, last', now').list
             IN  \A i \in 1..Len(swept) : swept[i].expiration > now' ]_vars

\* The entries of s that are in t, in the order of s.
Surviving(s, t) == SelectSeq(s, LAMBDA e : \E i \in 1..Len(t) : t[i] = e)

\* The entries of keys other than k that are resident after the step are
\* entries resident before it, in the order they had.
OthersKeepOrder(k) ==
    WithoutKey(lru'.list, k) = Surviving(WithoutKey(lru.list, k), lru'.list)

\* The key of the step's record is the first of the list after the step.
AtFront == lru'.list # << >> /\ Head(lru'.list).key = last'.key

\* C19 as stated: every get that returns found and every put on an enabled
\* lru leave their key at the front of the list and the other surviving
\* entries in the order they had; a get that misses reorders nothing.
C19_UseMovesToFront ==
    [][ /\ (GetStep /\ last'.found)
            => (AtFront /\ OthersKeepOrder(last'.key))
        /\ (PutStep /\ ~lru.disabled)
            => (AtFront /\ OthersKeepOrder(last'.key))
        /\ (GetStep /\ ~last'.found)
            => /\ OthersKeepOrder(last'.key)
               /\ lru'.list \in {lru.list, WithoutKey(lru.list, last'.key)}
      ]_vars

\* C19 amended: the put leaves its key at the front when the expiration of
\* its entry has not passed at the put's second reading of the clock (the
\* one of _evictExpired); when it has passed and the sweep runs, the entry
\* just put is swept and the key is absent.  In every case the other
\* surviving entries keep their order, a hit leaves its key at the front and
\* removes nothing, and a miss leaves the list as it was or, when it found
\* the key expired, without that key.
C19_UseMovesToFrontUnlessSwept ==
    [][ /\ (GetStep /\ last'.found)
            => /\ AtFront /\ OthersKeepOrder(last'.key)
               /\ Len(lru'.list) = Len(lru.list)
        /\ (PutStep /\ ~lru.disabled)
            => /\ OthersKeepOrder(last'.key)
               /\ now' <= last'.expiration
                    => (AtFront /\ Head(lru'.list) = PutEntry(last'))
               /\ (now' > last'.expiration /\ SweepRuns(lru, last', now'))
                    => last'.key \notin DOMAIN lru'.cache
        /\ (GetStep /\ ~last'.found)
            => /\ OthersKeepOrder(last'.key)
               /\ lru'.list \in {lru.list, WithoutKey(lru.list, last'.key)}
      ]_vars

\* A get has hit and its key stands at the front, before an entry that
\* expires later.
C19_Witness ==
    /\ last.op = "get" /\ last.found
    /\ lru.hits = 1
    /\ Len(lru.list) = 2
    /\ lru.list[1].key = last.key
    /\ lru.list[1].expiration < lru.list[2].expiration

\* C20: in every reachable state earliestExpiration is at most the
\* expiration of every resident entry.
C20_WatermarkBelowEntries ==
    \A i \in 1..Len(lru.list) :
        lru.earliestExpiration <= lru.list[i].expiration

\* A put has swept or evicted, and of the two resident entries one expires
\* at the watermark and the other later.
C20_Witness ==
    /\ last.op = "put" /\ last.removed > 0
    /\ Len(lru.list) = 2
    /\ lru.list[1].expiration > lru.earliestExpiration
    /\ lru.list[2].expiration = lru.earliestExpiration
    /\ now >= lru.earliestExpiration

\* The calls of c.lru.get that the goroutines of ws have made: one in every
\* Render completed and one in a Render that has not yet returned.
RECURSIVE GetsMade(_)
GetsMade(ws) ==
    IF ws = {} THEN 0
    ELSE LET w == CHOOSE x \in ws : TRUE
         IN  rd[w].n + (IF rd[w].at # "idle" THEN 1 ELSE 0)
               + GetsMade(ws \ {w})

\* C11: on an enabled lru that is never reset, reads equals the number of
\* gets the concurrent goroutines have made, whatever their interleaving;
\* when each of the N goroutines has completed its M Renders, reads = N * M.
C11_NoLostReads ==
    /\ lru.reads = GetsMade(Workers)
    /\ (\A w \in Workers : rd[w].n = RendersEach)
          => lru.reads = Cardinality(Workers) * RendersEach

\* Every goroutine has completed its Renders: one was served from the
\* cache, and the last to end had missed and its children failed.
C11_Witness ==
    /\ \A w \in Workers : rd[w] = NotRendering(RendersEach)
    /\ lru.reads = Cardinality(Workers) * RendersEach
    /\ lru.hits = 1
    /\ now > 0
    /\ Len(lru.list) = 1
    /\ last.op = "children_error"

\* The ttl of a Component built with opts by a builder whose base has ttl d:
\* that of its last WithTTL, or d.
TTLOf(opts, d) ==
    LET t == SelectSeq(opts, LAMBDA o : o.opt = "WithTTL")
    IN  IF t = << >> THEN d ELSE t[Len(t)].arg

\* C17: building and rendering components, with whatever options, never
\* changes the builder's base (its ttl, its lru) nor the maxMem of the lru;
\* every component points to the lru of the base; its ttl is that of its own
\* WithTTL, or the base's when it has none; a Render's get changes the lru
\* as a get of its key does, WithMaxMemory among the options or not; and its
\* put gives the entry the expiration now + the component's ttl.
C17_ComponentOptionsAreLocal ==
    [][ /\ base' = base
        /\ lru.maxMem = base.lru.maxMem /\ lru'.maxMem = lru.maxMem
        /\ \A w \in Workers :
              /\ rd'[w].at = "miss"
                   => /\ rd'[w].comp.lru = base.lru
                      /\ rd'[w].comp.ttl = TTLOf(rd'[w].opts, base.ttl)
              /\ (rd[w].at = "idle" /\ rd'[w] # rd[w])
                   => /\ last'.op = "get"
                      /\ lru' = get(lru, last'.key, now).c
              /\ (rd[w].at = "miss" /\ rd'[w] # rd[w] /\ last'.op = "put")
                   => /\ last'.expiration = now + rd[w].comp.ttl
                      /\ lru' = put(lru, last'.key, last'.value,
                                    TTLOf(rd[w].opts, base.ttl), now, now')
      ]_vars

\* A component built with WithTTL(2) has put its entry, which expires 2
\* after the put though the ttl of the base is 1, and a component built
\* with WithMaxMemory(0) has missed on the same lru, whose maxMem is as New
\* set it.
C17_Witness ==
    /\ base.ttl = 1
    /\ last.op = "put" /\ last.expiration = 2 /\ now = 0
    /\ lru.cache[last.key].expiration = 2
    /\ lru.maxMem = 55
    /\ \E w \in Workers :
          /\ rd[w].at = "miss"
          /\ rd[w].opts = <<OptMem(0)>>
          /\ lru.reads = rd[w].n + 2

\* C18: under a fair scheduler every operation a goroutine has started
\* (Render with its get and put, Remove, Reset, Disable) completes, whatever
\* the other goroutines do; and each iteration of put's eviction loop takes
\* exactly one entry out of the list, so the loop ends.
C18_EveryCallReturns ==
    /\ \A p \in Callers : (call[p].at # "idle") ~> (call[p].at = "idle")
    /\ [][ \A p \in Callers :
              (EvictLoop(p) /\ call'[p].at = "put.loop")
                => /\ Len(lru'.list) = Len(lru.list) - 1
                   /\ Len(lru'.list) >= 1 ]_vars

\* A put is in its eviction loop, holding the lock, with three entries in
\* the list, and the other goroutine waits for the lock in lru.get.
C18_Witness ==
    /\ call[1].at = "put.loop" /\ lock = 1
    /\ Len(lru.list) = 3
    /\ lru.mem > lru.maxMem
    /\ call[2].at = "get.Lock"

\* C26: a get adds one to hits exactly when it returns found (not on a
\* miss, not when it finds the key expired, not on a disabled lru); no other
\* step changes hits; reads and hits never decrease, a Reset included; and
\* hits <= reads in every state.
C26_HitsCountFound ==
    [][ /\ GetStep
            => lru'.hits = lru.hits + (IF last'.found THEN 1 ELSE 0)
        /\ ~GetStep => lru'.hits = lru.hits
        /\ lru'.hits >= lru.hits /\ lru'.reads >= lru.reads
        /\ lru.hits <= lru.reads /\ lru'.hits <= lru'.reads ]_vars

\* After one hit a get has found its key expired and removed it: reads
\* counts both gets, hits the first only.
C26_Witness ==
    /\ last.op = "get" /\ ~last.found /\ last.removed = 1
    /\ lru.reads = 2 /\ lru.hits = 1

\* C24: in every reachable state the map and the list are in bijection: the
\* keys of the map are the keys of the entries of the list, the map takes
\* each key to the entry of the list with that key, and no two entries of
\* the list have the same key.
C24_MapListBijection ==
    /\ DOMAIN lru.cache = {lru.list[i].key : i \in 1..Len(lru.list)}
    /\ \A i \in 1..Len(lru.list) : lru.cache[lru.list[i].key] = lru.list[i]
    /\ \A i, j \in 1..Len(lru.list) :
          lru.list[i].key = lru.list[j].key => i = j
    /\ Cardinality(DOMAIN lru.cache) = Len(lru.list)

\* A put that took no key out of the map has left its entry at the front of
\* an older one, of another size, after two hits.
C24_Witness ==
    /\ last.op = "put" /\ last.removed = 0
    /\ Len(lru.list) = 2
    /\ lru.list[1] = PutEntry(last)
    /\ size(lru.list[1]) # size(lru.list[2])
    /\ lru.hits = 2

\* Every entry of a key other than k that is resident before the step is
\* resident after it, unchanged.
OthersStay(k) ==
    \A j \in (DOMAIN lru.cache) \ {k} :
        j \in DOMAIN lru'.cache /\ lru'.cache[j] = lru.cache[j]

\* C23: a get of k removes no entry of another key, expired or not; a put
\* that does not leave mem > maxMem (or runs on a disabled lru) removes no
\* entry but the previous one of its own key; so an entry that has expired
\* and is not looked up stays in the list and in mem, counted by Stats.
C23_ExpirationIsLazy ==
    [][ /\ GetStep
            => /\ OthersStay(last'.key)
               /\ lru'.mem \in {lru.mem} \cup
                     {lru.mem - size(lru.cache[k]) :
                        k \in {last'.key} \cap DOMAIN lru.cache}
        /\ (PutStep
              /\ ~overMax(lru, last'.key, last'.value, last'.expiration))
            => /\ OthersStay(last'.key)
               /\ last'.removed = 0
               /\ Len(WithoutKey(lru'.list, last'.key))
                    = Len(WithoutKey(lru.list, last'.key)) ]_vars

\* A get has been served while the other resident entry had expired some
\* time before: Stats counts both entries and the bytes of both.
C23_Witness ==
    /\ last.op = "get" /\ last.found
    /\ Len(lru.list) = 2
    /\ lru.list[2].expiration < now
    /\ Stats(lru).Items = 2
    /\ Stats(lru).UsedMemory = size(lru.list[1]) + size(lru.list[2])

\* c without the entries among elems whose expiration is reached at t.
RECURSIVE DropExpired(_, _, _)
DropExpired(c, elems, t) ==
    IF elems = << >> THEN c
    ELSE DropExpired(IF Head(elems).expiration <= t
                     THEN _deleteKey(c, Head(elems).key)
                     ELSE c,
                     Tail(elems), t)

\* C22: a put that leaves mem > maxMem evicts an entry that has not expired
\* only if mem still exceeds maxMem once every expired entry (expiration <=
\* now) is removed.
C22_ExpiredBeforeLRU ==
    [][ (PutStep /\ overMax(lru, last'.key, last'.value, last'.expiration))
          => LET c3    == insert(lru, last'.key, last'.value, last'.expiration)
                 clean == DropExpired(c3, c3.list, now')
             IN  (\E i \in 1..Len(c3.list) :
                     /\ c3.list[i].expiration > now'
                     /\ c3.list[i].key \notin DOMAIN lru'.cache)
                   => clean.mem > clean.maxMem ]_vars

\* A step of SpecSweep is a put, with the arguments its record names.
LongPutStep ==
    /\ last'.op = "put"
    /\ ClockOnly
         => /\ (last'.expiration - now) \in LongTTLs
            /\ Put(last'.key, last'.value, last'.expiration - now)

\* The least expiration among the entries of a list that is not empty.
MinExpiration(s) ==
    CHOOSE m \in {s[i].expiration : i \in 1..Len(s)} :
        \A i \in 1..Len(s) : m <= s[i].expiration

Min(a, b) == IF a <= b THEN a ELSE b

\* C21 as stated: when the sweep of a put has run, earliestExpiration is
\* the least expiration among the entries it left, or now + 24h when it left
\* none.
C21_WatermarkIsMinimum ==
    [][ (LongPutStep /\ SweepRuns(lru, last', now'))
          => LET c == AfterSweep(lru, last', now')
             IN  c.earliestExpiration =
                    IF c.list = << >> THEN now' + Day
                    ELSE MinExpiration(c.list) ]_vars

\* C21 amended: when the sweep of a put has run, earliestExpiration is the
\* lesser of now + 24h and the least expiration among the entries the sweep
\* left; it is now + 24h when none is left or all expire later than that.
C21_WatermarkIsMinimumWithinDay ==
    [][ (LongPutStep /\ SweepRuns(lru, last', now'))
          => LET c == AfterSweep(lru, last', now')
             IN  c.earliestExpiration =
                    IF c.list = << >> THEN now' + Day
                    ELSE Min(now' + Day, MinExpiration(c.list)) ]_vars

\* A put with a ttl longer than a day has swept two expired entries and
\* stays alone: the watermark is now + 24h, earlier than its expiration.
C21_Witness ==
    /\ last.op = "put" /\ last.removed = 2
    /\ lru.list = <<PutEntry(last)>>
    /\ lru.mem <= lru.maxMem
    /\ lru.earliestExpiration = now + Day
    /\ last.expiration > now + Day

\* C25: in Render, after c.lru.get has missed, the only way to the write of
\* the output is the put of the bytes the children rendered, under the
\* component's key, and those bytes are what is then written; a Render that
\* returns after its miss without a put (no children, or the children
\* failed) leaves the lru as its get left it and writes nothing; after a hit
\* the bytes get returned are written, the entries are those of before the
\* get, and nothing is put; every write and every put is such a step.
C25_PutBeforeWrite ==
    [][ /\ \A w \in Workers :
              /\ (rd[w].at = "miss" /\ rd'[w].at = "write")
                   => /\ last'.op = "put"
                      /\ last'.key = rd[w].comp.key
                      /\ last'.value = rd'[w].buf
                      /\ lru' = put(lru, rd[w].comp.key, rd'[w].buf,
                                    rd[w].comp.ttl, now, now')
                      /\ rd'[w].n = rd[w].n
              /\ (rd[w].at = "miss" /\ rd'[w].at = "idle")
                   => /\ last'.op \in {"no_children", "children_error"}
                      /\ lru' = lru
              /\ (rd[w].at = "idle" /\ rd'[w].at = "write")
                   => /\ last'.op = "get" /\ last'.found
                      /\ rd'[w].buf = last'.value
                      /\ rd'[w].buf = lru.cache[last'.key].value
                      /\ lru'.cache = lru.cache /\ lru'.mem = lru.mem
              /\ (rd[w].at = "idle" /\ rd'[w].at = "miss")
                   => last'.op = "get" /\ ~last'.found
              /\ (rd[w].at = "write" /\ rd'[w] # rd[w])
                   => /\ rd'[w] = NotRendering(rd[w].n + 1)
                      /\ last'.op = "write"
                      /\ last'.key = rd[w].comp.key
                      /\ last'.value = rd[w].buf
                      /\ lru' = lru
        /\ (rd' # rd /\ last'.op = "write")
              => \E w \in Workers : rd[w].at = "write" /\ rd'[w].at = "idle"
        /\ (rd' # rd /\ last'.op = "put")
              => \E w \in Workers : rd[w].at = "miss" /\ rd'[w].at = "write"
      ]_vars

\* Two Renders have returned and both had missed: the one whose children
\* failed left nothing, the other has put its 31 bytes, which are the only
\* entry, and has then written them.
C25_Witness ==
    /\ \A w \in Workers : rd[w] = NotRendering(1)
    /\ lru.reads = 2 /\ lru.hits = 0
    /\ last.op = "write" /\ last.key = "B" /\ Len(last.value) = 31
    /\ Len(lru.list) = 1
    /\ lru.list[1].key = "B" /\ lru.list[1].value = last.value
    /\ now = 0

====
